---- MODULE Spec2Model ----
(***************************************************************************)
(* A model of express-redis-simple-cache: the Express middleware factory   *)
(* cache(route) of src/src/index.ts, the key derivation generateCacheKey   *)
(* of src/src/log.ts, the log filter, and the redis client and Express     *)
(* response objects the middleware talks to.                               *)
(*                                                                         *)
(* Text (response bodies, stored values) is a sequence of one-character    *)
(* strings, so that startsWith, JSON.stringify and JSON.parse are computed *)
(* character by character.  Cache keys are TLA+ strings built with \o.     *)
(***************************************************************************)
EXTENDS Integers, Sequences, FiniteSets, TLC

(***************************************************************************)
(* JavaScript values a handler can pass to res.send / res.json.            *)
(* Every value is a record [t, v]: t is the tag, v the payload.            *)
(***************************************************************************)
Str(s) == [t |-> "string", v |-> s]
Num(d) == [t |-> "number", v |-> d]
JNull == [t |-> "null", v |-> <<>>]
Arr(items) == [t |-> "array", v |-> items]
Obj(members) == [t |-> "object", v |-> members]

\* typeof body === 'object' (index.ts:67): true of objects, arrays and null.
TypeofObject(b) == b.t \in {"object", "array", "null"}

Digits == {"0", "1", "2", "3", "4", "5", "6", "7", "8", "9"}
Whitespace == {" "}

\* JSON.stringify's escaping of a string's characters.
RECURSIVE Escape(_)
Escape(s) ==
  IF s = <<>> THEN <<>>
  ELSE (IF Head(s) \in {"\"", "\\"} THEN <<"\\", Head(s)>> ELSE <<Head(s)>>)
       \o Escape(Tail(s))

Quote(s) == <<"\"">> \o Escape(s) \o <<"\"">>

\* JSON.stringify (index.ts:68 and :79): the compact text of a value.
RECURSIVE JSONStringify(_)
RECURSIVE StringifyItems(_)
RECURSIVE StringifyMembers(_)
StringifyItems(items) ==
  IF items = <<>> THEN <<>>
  ELSE JSONStringify(Head(items))
       \o (IF Tail(items) = <<>> THEN <<>> ELSE <<",">> \o StringifyItems(Tail(items)))

StringifyMembers(ms) ==
  IF ms = <<>> THEN <<>>
  ELSE Quote(Head(ms)[1]) \o <<":">> \o JSONStringify(Head(ms)[2])
       \o (IF Tail(ms) = <<>> THEN <<>> ELSE <<",">> \o StringifyMembers(Tail(ms)))

JSONStringify(b) ==
  CASE b.t = "string" -> Quote(b.v)
    [] b.t = "number" -> b.v
    [] b.t = "null" -> <<"n", "u", "l", "l">>
    [] b.t = "array" -> <<"[">> \o StringifyItems(b.v) \o <<"]">>
    [] b.t = "object" -> <<"{">> \o StringifyMembers(b.v) \o <<"}">>

(***************************************************************************)
(* JSON.parse (index.ts:89), a recursive-descent parser over the text.     *)
(* Each parser takes the text and a position and returns                   *)
(* [ok, val, next]; ok = FALSE is the SyntaxError JSON.parse throws.       *)
(***************************************************************************)
ParseFail == [ok |-> FALSE, val |-> JNull, next |-> 0]
ParseOk(val, next) == [ok |-> TRUE, val |-> val, next |-> next]

RECURSIVE SkipWs(_, _)
SkipWs(s, i) == IF i <= Len(s) /\ s[i] \in Whitespace THEN SkipWs(s, i + 1) ELSE i

\* The characters of a string literal, from position i (after the opening
\* quote) to the closing quote.
RECURSIVE ParseChars(_, _, _)
ParseChars(s, i, acc) ==
  IF i > Len(s) THEN ParseFail
  ELSE IF s[i] = "\"" THEN ParseOk(acc, i + 1)
  ELSE IF s[i] = "\\"
    THEN IF i + 1 <= Len(s) /\ s[i + 1] \in {"\"", "\\"}
           THEN ParseChars(s, i + 2, Append(acc, s[i + 1]))
           ELSE ParseFail
  ELSE ParseChars(s, i + 1, Append(acc, s[i]))

RECURSIVE ParseDigits(_, _, _)
ParseDigits(s, i, acc) ==
  IF i <= Len(s) /\ s[i] \in Digits
    THEN ParseDigits(s, i + 1, Append(acc, s[i]))
    ELSE ParseOk(acc, i)

RECURSIVE ParseValue(_, _)
RECURSIVE ParseItems(_, _, _)
RECURSIVE ParseMembers(_, _, _)

\* After '[' or a ',': one value, then ',' or ']'.
ParseItems(s, i, acc) ==
  LET r == ParseValue(s, i) IN
  IF ~r.ok THEN ParseFail
  ELSE LET j == SkipWs(s, r.next) IN
       IF j > Len(s) THEN ParseFail
       ELSE IF s[j] = "," THEN ParseItems(s, j + 1, Append(acc, r.val))
       ELSE IF s[j] = "]" THEN ParseOk(Arr(Append(acc, r.val)), j + 1)
       ELSE ParseFail

\* After '{' or a ',': "name" : value, then ',' or '}'.
ParseMembers(s, i, acc) ==
  LET k == SkipWs(s, i) IN
  IF k > Len(s) \/ s[k] # "\"" THEN ParseFail
  ELSE LET n == ParseChars(s, k + 1, <<>>) IN
       IF ~n.ok THEN ParseFail
       ELSE LET c == SkipWs(s, n.next) IN
            IF c > Len(s) \/ s[c] # ":" THEN ParseFail
            ELSE LET r == ParseValue(s, c + 1) IN
                 IF ~r.ok THEN ParseFail
                 ELSE LET j == SkipWs(s, r.next) IN
                      IF j > Len(s) THEN ParseFail
                      ELSE IF s[j] = ","
                        THEN ParseMembers(s, j + 1, Append(acc, <<n.val, r.val>>))
                      ELSE IF s[j] = "}"
                        THEN ParseOk(Obj(Append(acc, <<n.val, r.val>>)), j + 1)
                      ELSE ParseFail

ParseValue(s, i0) ==
  LET i == SkipWs(s, i0) IN
  IF i > Len(s) THEN ParseFail
  ELSE IF s[i] = "{"
    THEN LET j == SkipWs(s, i + 1) IN
         IF j <= Len(s) /\ s[j] = "}" THEN ParseOk(Obj(<<>>), j + 1)
         ELSE ParseMembers(s, i + 1, <<>>)
  ELSE IF s[i] = "["
    THEN LET j == SkipWs(s, i + 1) IN
         IF j <= Len(s) /\ s[j] = "]" THEN ParseOk(Arr(<<>>), j + 1)
         ELSE ParseItems(s, i + 1, <<>>)
  ELSE IF s[i] = "\""
    THEN LET r == ParseChars(s, i + 1, <<>>) IN
         IF r.ok THEN ParseOk(Str(r.val), r.next) ELSE ParseFail
  ELSE IF s[i] \in Digits
    THEN LET r == ParseDigits(s, i, <<>>) IN ParseOk(Num(r.val), r.next)
  ELSE IF i + 3 <= Len(s) /\ SubSeq(s, i, i + 3) = <<"n", "u", "l", "l">>
    THEN ParseOk(JNull, i + 4)
  ELSE ParseFail

\* JSON.parse(text): the value, or ok = FALSE (a thrown SyntaxError).
JSONParse(s) ==
  LET r == ParseValue(s, 1) IN
  IF r.ok /\ SkipWs(s, r.next) = Len(s) + 1 THEN [ok |-> TRUE, val |-> r.val]
  ELSE [ok |-> FALSE, val |-> JNull]

\* String.prototype.startsWith for a one-character prefix (index.ts:88).
StartsWith(s, c) == Len(s) > 0 /\ s[1] = c

(***************************************************************************)
(* Routes and requests.                                                    *)
(* A route is [method, route, hasCache, cache]; cache is                   *)
(* [type, hasExpire, expire, hasCustomCookie, customCookie], an omitted    *)
(* optional field being has... = FALSE.  A request is                      *)
(* [url, originalUrl, hasCookies, cookies, headers]; cookies and headers   *)
(* map the names that are defined on the request to their values.          *)
(***************************************************************************)
NoCache ==
  [type |-> "none", hasExpire |-> FALSE, expire |-> 0,
   hasCustomCookie |-> FALSE, customCookie |-> ""]

CacheOf(type, hasExpire, expire) ==
  [type |-> type, hasExpire |-> hasExpire, expire |-> expire,
   hasCustomCookie |-> FALSE, customCookie |-> ""]

CustomCookieCache(hasName, name) ==
  [type |-> "per-custom-cookie", hasExpire |-> FALSE, expire |-> 0,
   hasCustomCookie |-> hasName, customCookie |-> name]

RouteOf(method, path, hasCache, cache) ==
  [method |-> method, route |-> path, hasCache |-> hasCache, cache |-> cache]

NoEntries == [n \in {} |-> ""]

ReqOf(url, originalUrl, hasCookies, cookies, headers) ==
  [url |-> url, originalUrl |-> originalUrl, hasCookies |-> hasCookies,
   cookies |-> cookies, headers |-> headers]

(***************************************************************************)
(* log.ts: the log filter.  A call log(message, level) under the current   *)
(* log level reaches the console or is dropped.                            *)
(***************************************************************************)
LogLevels == {"normal", "debug", "silent"}

Emitted(current, level) ==
  /\ current # "silent"
  /\ ~(level = "debug" /\ current # "debug")

\* The trace entry of a call log(message, level): the call into the log
\* sink with its severity.  Whether the console prints it is Emitted.
LogEv(level) == <<"log", level>>

(***************************************************************************)
(* log.ts: getAuthCookie and generateCacheKey.                             *)
(***************************************************************************)
commonAuthCookieNames ==
  <<"authToken", "accessToken", "refreshToken", "idToken", "jwt", "token",
    "sessionToken", "auth_token", "access_token", "refresh_token", "bearer_token">>

\* The header names of the source, lower-cased as line 87 does.
commonAuthHeaderNames ==
  <<"authorization", "x-auth-token", "x-access-token", "x-refresh-token",
    "x-id-token", "x-api-key", "token", "auth-token">>

\* names.map(n => map[n]).find(v => v !== undefined) || null :
\* the value of the first name defined in map; null when none is defined
\* or when that first value is the empty string.
RECURSIVE FirstDefined(_, _)
FirstDefined(names, map) ==
  IF names = <<>> THEN [found |-> FALSE, val |-> ""]
  ELSE IF Head(names) \in DOMAIN map
    THEN [found |-> map[Head(names)] # "", val |-> map[Head(names)]]
    ELSE FirstDefined(Tail(names), map)

\* getAuthCookie: [threw, found, val].  req.cookies[name] throws a TypeError
\* when the request has no cookies object.
getAuthCookie(req) ==
  IF ~req.hasCookies THEN [threw |-> TRUE, found |-> FALSE, val |-> ""]
  ELSE LET c == FirstDefined(commonAuthCookieNames, req.cookies) IN
       IF c.found THEN [threw |-> FALSE, found |-> TRUE, val |-> c.val]
       ELSE LET h == FirstDefined(commonAuthHeaderNames, req.headers) IN
            [threw |-> FALSE, found |-> h.found, val |-> IF h.found THEN h.val ELSE ""]

KeyOk(key) == [kind |-> "key", key |-> key, logs |-> <<>>]
KeyFalse(levels) == [kind |-> "false", key |-> "", logs |-> levels]
KeyThrow == [kind |-> "throw", key |-> "", logs |-> <<>>]

\* line 27: the key of type always.
\* Mutant: the request's URL in place of the route's path.
AlwaysKey_Url(route, req) == "cache:" \o route.method \o ":" \o req.url
AlwaysKey(route, req) == "cache:" \o route.method \o ":" \o route.route

\* line 36: the key of type per-request-url, from req.url.
\* Mutant: the route's path in place of the request's URL.
UrlKey_RoutePath(route, req) == "cache:" \o route.method \o ":" \o route.route
UrlKey(route, req) == "cache:" \o route.method \o ":" \o req.url

\* line 38: if (route.cache.customCookie), the truthiness of the name.
\* Mutant: the test left out.
HasCustomCookie_Always(cache) == TRUE
HasCustomCookie(cache) == cache.hasCustomCookie /\ cache.customCookie # ""

\* generateCacheKey(route, req): a key, false (NOT_CACHEABLE) with the
\* severities it logged, or a thrown exception.
generateCacheKey(route, req) ==
  LET method == route.method
      routePath == route.route
      type == IF route.hasCache THEN route.cache.type ELSE "none"
  IN
  CASE type = "always" -> KeyOk(AlwaysKey(route, req))
    [] type = "per-auth-token" ->
         LET authCookie == getAuthCookie(req) IN
         IF authCookie.threw THEN KeyThrow
         ELSE IF ~authCookie.found THEN KeyFalse(<<"warn">>)
         ELSE KeyOk("cache:" \o method \o ":" \o routePath \o ":" \o authCookie.val)
    [] type = "per-request-url" -> KeyOk(UrlKey(route, req))
    [] type = "per-custom-cookie" ->
         IF HasCustomCookie(route.cache)
           THEN LET cookies == IF req.hasCookies THEN req.cookies ELSE NoEntries
                    customCookieValue ==
                      IF route.cache.customCookie \in DOMAIN cookies
                        THEN cookies[route.cache.customCookie] ELSE ""
                IN IF customCookieValue = "" THEN KeyFalse(<<"warn">>)
                   ELSE KeyOk("cache:" \o method \o ":" \o routePath \o ":"
                              \o customCookieValue)
           ELSE KeyFalse(<<"error">>)
    [] OTHER -> KeyFalse(<<>>)

(***************************************************************************)
(* Inputs of the model: the routes an application registers, the requests  *)
(* it receives and the bodies its handlers write.                          *)
(***************************************************************************)
DEFAULT_CACHE_TTL == 60

Routes ==
  { RouteOf("GET", "/users", FALSE, NoCache),
    RouteOf("GET", "/users", TRUE, CacheOf("always", TRUE, 120)),
    RouteOf("GET", "/users", TRUE, CacheOf("always", TRUE, 0)),
    RouteOf("GET", "/users", TRUE, CustomCookieCache(TRUE, "cartId")) }

PlainReq == ReqOf("/users", "/users", TRUE, NoEntries, NoEntries)
CartReq == ReqOf("/users", "/users", TRUE, [n \in {"cartId"} |-> "xyz"], NoEntries)

\* The requests sent to a route: with and without the cookie, for the route
\* whose key reads it.
Reqs(rt) ==
  IF rt.hasCache /\ rt.cache.type = "per-custom-cookie"
    THEN {PlainReq, CartReq}
    ELSE {PlainReq}

Bodies ==
  { Str(<<"h", "i">>),
    Str(<<"{", "h", "i">>),
    Str(<<"[", "1", ",", " ", "2", "]">>),
    Obj(<< << <<"a">>, Num(<<"1">>) >> >>) }

Entries == {"send", "json"}

\* Requests in flight at once.
MaxInFlight == 1
Slots == 1 .. MaxInFlight

(***************************************************************************)
(* State.                                                                  *)
(*   route            the route the application registers                  *)
(*   redis            the module's redis handle: "null", or a client that  *)
(*                    is "notready" or "ready" (isReady)                   *)
(*   mw               the middleware cache(route) has returned: NoMw       *)
(*                    before the call, then its kind and what its          *)
(*                    construction logged                                  *)
(*   store            the redis server's keys: key -> [text, ttl, left,    *)
(*                    via, body, by]; via, body and by remember the write  *)
(*                    that stored it                                       *)
(*   queue            the commands sent to redis and not yet answered      *)
(*   slots            the requests in flight: the position of each one's   *)
(*                    middleware call and handler, and its trace ev.       *)
(*                    The trace holds, in order:                           *)
(*                      <<"isReady", value>>        redis && redis.isReady  *)
(*                                                  is read (lines 52, 65, *)
(*                                                  78)                    *)
(*                      <<"log", severity>>         a call of log()        *)
(*                      <<"next">>                  a call of next()       *)
(*                      <<"get", key>>              redis.get is issued    *)
(*                      <<"set", key, text, ttl>>   redis.set is issued    *)
(*                      <<"wrap", entry>>           res.<entry> is replaced*)
(*                      <<"hit", text, via, body, by, route, left>>        *)
(*                                                  the lookup of a request*)
(*                                                  to route found text,   *)
(*                                                  stored by route by,    *)
(*                                                  left seconds to live   *)
(*                      <<"setHeader", name, value>>                       *)
(*                      <<"call", entry, body>>     the handler calls      *)
(*                                                  res.<entry>(body)      *)
(*                      <<"out", entry, body>>      the original res.<entry>*)
(*                                                  is called: the caller  *)
(*                                                  receives body          *)
(*                      <<"throw", cause>>          an exception nothing   *)
(*                                                  catches                *)
(*                    keyFailed: its key derivation returned false;        *)
(*                    afterKeyFail: so did that of the request before it   *)
(***************************************************************************)
VARIABLES route, redis, mw, store, queue, slots
vars == <<route, redis, mw, store, queue, slots>>

NoReq == ReqOf("", "", FALSE, NoEntries, NoEntries)
NoMw == [kind |-> "none", builtReady |-> FALSE, ev |-> <<>>]
IdleSlot ==
  [pc |-> "idle", req |-> NoReq, cacheKey |-> "",
   wrapped |-> FALSE, writes |-> 0, keyFailed |-> FALSE,
   afterKeyFail |-> FALSE, ev |-> <<>>]

Init ==
  /\ route \in Routes
  /\ redis = "null"
  /\ mw = NoMw
  /\ store = [k \in {} |-> 0]
  /\ queue = <<>>
  /\ slots = [s \in Slots |-> IdleSlot]

(***************************************************************************)
(* index.ts: the decisions of cache() and cacheMiddleware().               *)
(***************************************************************************)
\* !redis || !redis.isReady, negated.
IsReady(r) == r = "ready"

\* cache(route), lines 37-49: the kind of middleware returned.
\*   "plain"    line 41, the route has no cache configuration
\*   "fallback" line 48, built while the store was absent or not ready
\*   "caching"  line 51
\* Mutants: cache() without the test of line 38; cacheMiddleware() without
\* the test of line 46.
BuildKind_IgnoreCache(rt, r) == IF ~IsReady(r) THEN "fallback" ELSE "caching"
BuildKind_NoReadyCheck(rt, r) == IF rt.hasCache THEN "caching" ELSE "plain"
BuildKind(rt, r) ==
  IF rt.hasCache
    THEN IF ~IsReady(r) THEN "fallback" ELSE "caching"
    ELSE "plain"

\* line 52: the readiness check of every invocation.
\* Mutant: the check left out.
RequestReady_Always(r) == TRUE
RequestReady(r) == IsReady(r)

\* line 55: !cacheKey, of what generateCacheKey returned.
\* Mutant: the result used unchecked.
NotCacheable_Never(key) == FALSE
NotCacheable(key) == key.kind = "false"

\* lines 65 and 78: the readiness check of a write wrapper.
WriteReady(r) == IsReady(r)

\* line 61: !data, of a reply [found, text].
IsMiss(data) == ~data.found \/ data.text = <<>>

\* lines 71 and 79: route.cache?.expire || DEFAULT_CACHE_TTL.
\* Mutant: ?? in place of ||, which keeps an expire of 0.
TTL_Nullish(rt) ==
  IF rt.hasCache /\ rt.cache.hasExpire THEN rt.cache.expire ELSE DEFAULT_CACHE_TTL
TTL(rt) ==
  IF rt.hasCache /\ rt.cache.hasExpire /\ rt.cache.expire # 0
    THEN rt.cache.expire
    ELSE DEFAULT_CACHE_TTL

\* lines 67-69: the body the raw-write wrapper stores and sends.
\* Mutant: the body stored and sent as it came.
SendBody_AsIs(b) == b
SendBody(b) == IF TypeofObject(b) THEN Str(JSONStringify(b)) ELSE b

\* line 79: the text the structured-write wrapper stores.
JsonText(b) == JSONStringify(b)

\* line 81: the body the structured-write wrapper passes on.
\* Mutant: the serialized text passed on, as the raw-write wrapper does.
JsonBody_Serialized(b) == Str(JSONStringify(b))
JsonBody(b) == b

\* lines 62-83, the miss path: the debug log, res.send replaced, res.json
\* replaced, then next().
\* Mutant: only res.send is replaced.
MissSteps_SendOnly == <<LogEv("debug"), <<"wrap", "send">>, <<"next">> >>
MissSteps == <<LogEv("debug"), <<"wrap", "send">>, <<"wrap", "json">>, <<"next">> >>

\* The entry point res.<entry> of a request is a wrapper of the middleware.
Wrapped(sl, entry) ==
  sl.wrapped /\ \E i \in DOMAIN sl.ev : sl.ev[i] = <<"wrap", entry>>

\* redis.get's reply for a key.
Lookup(k) ==
  IF k \in DOMAIN store THEN [found |-> TRUE, text |-> store[k].text]
  ELSE [found |-> FALSE, text |-> <<>>]

\* A command sent to redis; rt is the route whose middleware sent it.
Cmd(s, op, key, text, ttl, entry, out, body) ==
  [slot |-> s, op |-> op, key |-> key, text |-> text, ttl |-> ttl,
   entry |-> entry, out |-> out, body |-> body, rt |-> route]

\* The entry a write leaves under its key: the text, the expiry EX and the
\* seconds left of it, and the write it came from (entry point, body, route).
Stored(c) ==
  [text |-> c.text, ttl |-> c.ttl, left |-> c.ttl,
   via |-> c.entry, body |-> c.body, by |-> c.rt]

Pending(s) == \E i \in 1 .. Len(queue) : queue[i].slot = s

\* A slot takes a new request when none is in it, or when the one in it is
\* over: its middleware call has ended without next(), or its handler has
\* run and every write it started has been answered.
Free(s) ==
  \/ slots[s].pc \in {"idle", "done"}
  \/ slots[s].pc = "handler" /\ ~Pending(s)

Without(f, k) == [x \in DOMAIN f \ {k} |-> f[x]]

\* lines 71 and 79: redis.set(key, text, {EX: ttl}) answered: the key holds
\* the text of this command, whatever it held before.
\* Mutant: a key that holds a value keeps it (SET with NX).
StoreSet_KeepFirst(st, c) ==
  IF c.key \in DOMAIN st THEN st
  ELSE (c.key :> Stored(c)) @@ st
StoreSet(st, c) == (c.key :> Stored(c)) @@ Without(st, c.key)

\* lines 84-93, the hit path: it sends nothing to redis, so the entry under
\* the key stays as it is.
\* Mutant: a hit renews the entry's expiry (GETEX, a sliding expiration).
HitStore_Refresh(st, k) == [st EXCEPT ![k].left = st[k].ttl]
HitStore(st, k) == st

RECURSIVE LogEvs(_)
LogEvs(levels) ==
  IF levels = <<>> THEN <<>>
  ELSE <<LogEv(Head(levels))>> \o LogEvs(Tail(levels))

(***************************************************************************)
(* The store connection (index.ts:23-35).                                  *)
(***************************************************************************)
\* setupCache, lines 24-28: a new client, not yet connected.  (The log level
\* it sets only filters what the console prints, see Emitted.)
SetupCache ==
  /\ redis = "null"
  /\ redis' = "notready"
  /\ UNCHANGED <<route, mw, store, queue, slots>>

\* line 28, redis.connect() resolves; also the client's own reconnect.
Connected ==
  /\ redis = "notready"
  /\ redis' = "ready"
  /\ UNCHANGED <<route, mw, store, queue, slots>>

\* The connection is lost, or stopCache (line 33) quits it: isReady is false.
ConnectionLost ==
  /\ redis = "ready"
  /\ redis' = "notready"
  /\ UNCHANGED <<route, mw, store, queue, slots>>

(***************************************************************************)
(* cache(route), index.ts:37-49.  The middleware is remembered with its    *)
(* kind and with what its construction logged.                             *)
(***************************************************************************)
Build ==
  /\ mw = NoMw
  /\ LET kind == BuildKind(route, redis) IN
     mw' = [kind |-> kind, builtReady |-> IsReady(redis),
            ev |-> IF kind = "fallback" THEN <<LogEv("error")>> ELSE <<>>]
  /\ UNCHANGED <<route, redis, store, queue, slots>>

(***************************************************************************)
(* A request reaches a middleware (index.ts:41, :48, :51-60): the call     *)
(* runs to its first await or to its return.                               *)
(***************************************************************************)
Invoke(s, q) ==
  /\ Free(s)
  /\ mw # NoMw
  /\ LET m == mw
         key == generateCacheKey(route, q)
         fresh == [IdleSlot EXCEPT !.req = q, !.afterKeyFail = slots[s].keyFailed]
         invoke == <<"isReady", IsReady(redis)>>
     IN
     IF m.kind \in {"plain", "fallback"}
       THEN /\ slots' = [slots EXCEPT ![s] =
                 [fresh EXCEPT !.pc = "handler", !.ev = << <<"next">> >>]]
            /\ queue' = queue
     ELSE IF ~RequestReady(redis)
       THEN /\ slots' = [slots EXCEPT ![s] =
                 [fresh EXCEPT !.pc = "handler", !.ev = <<invoke, <<"next">> >>]]
            /\ queue' = queue
     ELSE IF key.kind = "throw"
       THEN /\ slots' = [slots EXCEPT ![s] =
                 [fresh EXCEPT !.pc = "done", !.ev = <<invoke, <<"throw", "key">> >>]]
            /\ queue' = queue
     ELSE IF NotCacheable(key)
       THEN /\ slots' = [slots EXCEPT ![s] =
                 [fresh EXCEPT !.pc = "handler", !.keyFailed = TRUE,
                    !.ev = <<invoke>> \o LogEvs(key.logs)
                           \o <<LogEv("warn"), <<"next">> >>]]
            /\ queue' = queue
     ELSE /\ slots' = [slots EXCEPT ![s] =
               [fresh EXCEPT !.pc = "awaitGet", !.cacheKey = key.key,
                  !.ev = <<invoke, <<"get", key.key>> >>]]
          /\ queue' = Append(queue, Cmd(s, "get", key.key, <<>>, 0, "", JNull, JNull))
  /\ UNCHANGED <<route, redis, mw, store>>

(***************************************************************************)
(* redis answers the oldest command.                                       *)
(***************************************************************************)
\* index.ts:60-93: the lookup's reply resumes the middleware.
GetReply ==
  /\ queue # <<>> /\ Head(queue).op = "get"
  /\ IsReady(redis)
  /\ LET c == Head(queue)
         s == c.slot
         data == Lookup(c.key)
         src == IF data.found THEN store[c.key]
                ELSE [via |-> "", body |-> JNull, by |-> route, left |-> 0]
         parsed == JSONParse(data.text)
         hit == <<LogEv("debug"),
                  <<"hit", data.text, src.via, src.body, src.by, route, src.left>>,
                  <<"setHeader", "X-Cache", "HIT">> >>
     IN
     slots' = [slots EXCEPT ![s] =
       IF IsMiss(data)
         THEN [@ EXCEPT !.pc = "handler", !.wrapped = TRUE,
                 !.ev = @ \o MissSteps]
       ELSE IF StartsWith(data.text, "{") \/ StartsWith(data.text, "[")
         THEN IF parsed.ok
                THEN [@ EXCEPT !.pc = "done",
                        !.ev = @ \o hit \o << <<"out", "json", parsed.val>> >>]
                ELSE [@ EXCEPT !.pc = "done", !.ev = @ \o hit \o << <<"throw", "parse">> >>]
       ELSE [@ EXCEPT !.pc = "done",
               !.ev = @ \o hit \o << <<"out", "send", Str(data.text)>> >>]]
  /\ store' = IF IsMiss(Lookup(Head(queue).key)) THEN store
              ELSE HitStore(store, Head(queue).key)
  /\ queue' = Tail(queue)
  /\ UNCHANGED <<route, redis, mw>>

\* index.ts:71-73 and :79-81: the write's reply resumes the wrapper.
SetReply ==
  /\ queue # <<>> /\ Head(queue).op = "set"
  /\ IsReady(redis)
  /\ LET c == Head(queue) IN
     /\ store' = StoreSet(store, c)
     /\ slots' = [slots EXCEPT ![c.slot].ev =
          @ \o <<LogEv("debug"), <<"out", c.entry, c.out>> >>]
  /\ queue' = Tail(queue)
  /\ UNCHANGED <<route, redis, mw>>

\* The command is rejected: the await throws, nothing catches it.
StoreFail ==
  /\ queue # <<>>
  /\ LET c == Head(queue) IN
     slots' = [slots EXCEPT ![c.slot] =
       [@ EXCEPT !.pc = IF c.op = "get" THEN "done" ELSE @,
                 !.ev = @ \o << <<"throw", c.op>> >>]]
  /\ queue' = Tail(queue)
  /\ UNCHANGED <<route, redis, mw, store>>

\* A stored key's TTL runs out.
Expire(k) ==
  /\ k \in DOMAIN store
  /\ store' = Without(store, k)
  /\ UNCHANGED <<route, redis, mw, queue, slots>>

(***************************************************************************)
(* The downstream handler, running after next(), writes its response body  *)
(* through res.send or res.json: the original entry point, or the wrapper  *)
(* of index.ts:64-74 / :77-82 when the middleware installed it.            *)
(***************************************************************************)
HandlerWrite(s, entry, b) ==
  /\ slots[s].pc = "handler"
  /\ slots[s].writes = 0
  /\ LET sl == slots[s]
         called == [sl EXCEPT !.writes = @ + 1, !.ev = @ \o << <<"call", entry, b>> >>]
         checked == [called EXCEPT !.ev = @ \o << <<"isReady", IsReady(redis)>> >>]
         text == IF entry = "send" THEN SendBody(b).v ELSE JsonText(b)
         out == IF entry = "send" THEN SendBody(b) ELSE JsonBody(b)
     IN
     IF ~Wrapped(sl, entry)
       THEN /\ slots' = [slots EXCEPT ![s] =
                 [called EXCEPT !.ev = @ \o << <<"out", entry, b>> >>]]
            /\ queue' = queue
     ELSE IF ~WriteReady(redis)
       THEN /\ slots' = [slots EXCEPT ![s] =
                 [checked EXCEPT !.ev = @ \o << <<"next">> >>]]
            /\ queue' = queue
     ELSE /\ slots' = [slots EXCEPT ![s] =
               [checked EXCEPT
                  !.ev = @ \o << <<"set", sl.cacheKey, text, TTL(route)>> >>]]
          /\ queue' = Append(queue,
               Cmd(s, "set", sl.cacheKey, text, TTL(route), entry, out, b))
  /\ UNCHANGED <<route, redis, mw, store>>

Next ==
  \/ SetupCache
  \/ Connected
  \/ ConnectionLost
  \/ Build
  \/ \E s \in DOMAIN slots, q \in Reqs(route) : Invoke(s, q)
  \/ GetReply
  \/ SetReply
  \/ StoreFail
  \/ \E k \in DOMAIN store : Expire(k)
  \/ \E s \in DOMAIN slots, entry \in Entries, b \in Bodies : HandlerWrite(s, entry, b)

Spec == Init /\ [][Next]_vars

(***************************************************************************)
(* Key derivation seen through the middleware: routes of every cache type  *)
(* and requests that differ in URL, cookies and headers reach a caching    *)
(* middleware whose store is ready and empty, so that every request runs   *)
(* generateCacheKey (index.ts:54) and its outcome shows in the trace.      *)
(***************************************************************************)
KeyRoutes ==
  { RouteOf("GET", "/users", TRUE, CacheOf("always", FALSE, 0)),
    RouteOf("GET", "/users", TRUE, CacheOf("per-auth-token", FALSE, 0)),
    RouteOf("GET", "/users", TRUE, CacheOf("per-request-url", FALSE, 0)),
    RouteOf("GET", "/users", TRUE, CustomCookieCache(TRUE, "cartId")),
    RouteOf("GET", "/users", TRUE, CustomCookieCache(FALSE, "")) }

KeyUrls == {"/users", "/users?page=1", "/users?page=2"}

\* req.cookies: absent (no cookie parser), or the cookies of the request.
\* Each is [has, map].
KeyCookies ==
  { [has |-> FALSE, map |-> NoEntries],
    [has |-> TRUE, map |-> NoEntries],
    [has |-> TRUE, map |-> [n \in {"jwt"} |-> "abc"]],
    [has |-> TRUE, map |-> [n \in {"authToken"} |-> ""]],
    [has |-> TRUE, map |-> [n \in {"authToken", "jwt"} |->
                              IF n = "jwt" THEN "abc" ELSE ""]],
    [has |-> TRUE, map |-> [n \in {"token", "jwt"} |->
                              IF n = "jwt" THEN "abc" ELSE "t1"]],
    [has |-> TRUE, map |-> [n \in {"cartId"} |-> "xyz"]],
    [has |-> TRUE, map |-> [n \in {"cartId"} |-> ""]] }

\* req.headers, keyed by lower-cased name.
KeyHeaders ==
  { NoEntries,
    [n \in {"authorization"} |-> "hdr"],
    [n \in {"x-api-key", "x-auth-token"} |->
       IF n = "x-auth-token" THEN "h2" ELSE "h3"] }

\* Every URL with every cookie mapping, and every cookie mapping with every
\* header mapping.
KeyReqs ==
  { ReqOf(u, u, c.has, c.map, NoEntries) : u \in KeyUrls, c \in KeyCookies }
  \cup { ReqOf("/users", "/users", c.has, c.map, h) : c \in KeyCookies, h \in KeyHeaders }

KeyInit ==
  /\ route \in KeyRoutes
  /\ redis = "null"
  /\ mw = NoMw
  /\ store = [k \in {} |-> 0]
  /\ queue = <<>>
  /\ slots = [s \in Slots |-> IdleSlot]

KeyNext ==
  \/ SetupCache
  \/ Connected
  \/ Build
  \/ \E s \in DOMAIN slots, q \in KeyReqs : Invoke(s, q)
  \/ GetReply

KeySpec == KeyInit /\ [][KeyNext]_vars

(***************************************************************************)
(* Two requests in flight at once on the route every request of which      *)
(* derives the same key (index.ts:60-83 holds no lock and coalesces        *)
(* nothing).                                                               *)
(***************************************************************************)
Concurrent == {1, 2}

RaceInit ==
  /\ route = RouteOf("GET", "/users", TRUE, CacheOf("always", TRUE, 120))
  /\ redis = "null"
  /\ mw = NoMw
  /\ store = [k \in {} |-> 0]
  /\ queue = <<>>
  /\ slots = [s \in Concurrent |-> IdleSlot]

RaceSpec == RaceInit /\ [][Next]_vars

(***************************************************************************)
(* The store's clock: time passes in steps of DEFAULT_CACHE_TTL seconds,   *)
(* and redis drops an entry when the seconds of its EX are used up.        *)
(***************************************************************************)
Tick ==
  /\ DOMAIN store # {}
  /\ store' = [k \in {x \in DOMAIN store : store[x].left > DEFAULT_CACHE_TTL} |->
                 [store[k] EXCEPT !.left = @ - DEFAULT_CACHE_TTL]]
  /\ UNCHANGED <<route, redis, mw, queue, slots>>

TtlNext ==
  \/ Next
  \/ Tick

TtlSpec == Init /\ [][TtlNext]_vars

(***************************************************************************)
(* An application with two cache-enabled routes on one store: GET /users   *)
(* of the application, cached for every caller, and GET /users of a router *)
(* mounted at /admin, cached per URL.  Inside a mounted router req.url is  *)
(* the path below the mount point and req.originalUrl the full one; the    *)
(* key of line 36 is built from req.url.  Both middlewares are built at    *)
(* the same time; route is the route the next request is for.              *)
(***************************************************************************)
AppRoutes ==
  { RouteOf("GET", "/users", TRUE, CacheOf("always", TRUE, 120)),
    RouteOf("GET", "/users", TRUE, CacheOf("per-request-url", FALSE, 0)) }

MountedReq == ReqOf("/users", "/admin/users", TRUE, NoEntries, NoEntries)
MountedQueryReq ==
  ReqOf("/users?page=1", "/admin/users?page=1", TRUE, NoEntries, NoEntries)

AppReqs(rt) ==
  IF rt.cache.type = "per-request-url" THEN {MountedReq, MountedQueryReq}
  ELSE {PlainReq}

AppInit ==
  /\ route \in AppRoutes
  /\ redis = "null"
  /\ mw = NoMw
  /\ store = [k \in {} |-> 0]
  /\ queue = <<>>
  /\ slots = [s \in Slots |-> IdleSlot]

\* The requests so far are over; the next one is for the other route.
Dispatch(rt) ==
  /\ mw # NoMw
  /\ rt # route
  /\ queue = <<>>
  /\ \A s \in DOMAIN slots : Free(s)
  /\ route' = rt
  /\ UNCHANGED <<redis, mw, store, queue, slots>>

AppNext ==
  \/ SetupCache
  \/ Connected
  \/ Build
  \/ \E rt \in AppRoutes : Dispatch(rt)
  \/ \E s \in DOMAIN slots, q \in AppReqs(route) : Invoke(s, q)
  \/ GetReply
  \/ SetReply
  \/ \E s \in DOMAIN slots, entry \in Entries, b \in Bodies : HandlerWrite(s, entry, b)

AppSpec == AppInit /\ [][AppNext]_vars

(***************************************************************************)
(* The claims.                                                             *)
(***************************************************************************)
Ev(s) == slots[s].ev
Active(s) == slots[s].pc # "idle"
Has(ev, tag) == \E i \in DOMAIN ev : ev[i][1] = tag
Count(ev, tag) == Cardinality({i \in DOMAIN ev : ev[i][1] = tag})
StoreOps(ev) == Has(ev, "get") \/ Has(ev, "set")

\* The key derived for the request in slot s.
KeyFor(s) == generateCacheKey(route, slots[s].req)

\* text(b) of the claims: b itself for a string, its serialized text otherwise.
ClaimText(b) == IF b.t = "string" THEN b.v ELSE JSONStringify(b)

\* The TTL of the claims: the configured expire when positive, else 60.
ClaimTTL(rt) ==
  IF rt.hasCache /\ rt.cache.hasExpire /\ rt.cache.expire > 0
    THEN rt.cache.expire ELSE 60

\* The bytes the caller receives from a call of an original entry point:
\* res.send writes the string, res.json writes the value's JSON text.
Wire(e) == IF e[2] = "send" THEN e[3].v ELSE JSONStringify(e[3])

\* The request in slot s went through the middleware as a pure pass-through:
\* next() and nothing else.
PurePassThrough(s) ==
  /\ Ev(s)[1] = <<"next">>
  /\ Count(Ev(s), "next") = 1
  /\ ~StoreOps(Ev(s))
  /\ ~Has(Ev(s), "wrap") /\ ~Has(Ev(s), "log") /\ ~Has(Ev(s), "setHeader")
  /\ ~slots[s].wrapped
  /\ ~Pending(s)

\* C1: on a cache hit the middleware sets X-Cache: HIT, writes the stored
\* value to the response (as the string, or as the value the text denotes)
\* and never calls next().
C1_HitServed ==
  \A s \in Slots : \A i \in DOMAIN Ev(s) :
    Ev(s)[i][1] = "hit" =>
      /\ \E j \in DOMAIN Ev(s) : j > i /\ Ev(s)[j] = <<"setHeader", "X-Cache", "HIT">>
      /\ \E j \in DOMAIN Ev(s) :
           /\ j > i
           /\ Ev(s)[j][1] = "out"
           /\ \/ Ev(s)[j][2] = "send" /\ Ev(s)[j][3] = Str(Ev(s)[i][2])
              \/ /\ Ev(s)[j][2] = "json"
                 /\ JSONParse(Ev(s)[i][2]) = [ok |-> TRUE, val |-> Ev(s)[j][3]]
      /\ ~Has(Ev(s), "next")

\* C2: when the handler of a miss calls res.send(b) with the store ready,
\* redis.set(key, text(b), ttl) is issued for the request's key, no original
\* write happens before the store has answered it, and once it has, the
\* original res.send has been called with text(b).
C2_RawWriteStored ==
  \A s \in Slots : \A i \in DOMAIN Ev(s) :
    ( /\ Ev(s)[i][1] = "call" /\ Ev(s)[i][2] = "send"
      /\ i + 1 <= Len(Ev(s)) /\ Ev(s)[i + 1] = <<"isReady", TRUE>> ) =>
      LET b == Ev(s)[i][3] IN
      /\ i + 2 <= Len(Ev(s))
      /\ Ev(s)[i + 2] = <<"set", KeyFor(s).key, ClaimText(b), ClaimTTL(route)>>
      /\ \A j \in DOMAIN Ev(s) :
           Ev(s)[j][1] = "out" => j > i + 2 /\ Ev(s)[j] = <<"out", "send", Str(ClaimText(b))>>
      /\ Pending(s) => ~Has(Ev(s), "out")
      /\ (~Pending(s) /\ ~Has(Ev(s), "throw")) => Has(Ev(s), "out")

C2_Witness ==
  \E s \in Slots : \E i \in DOMAIN Ev(s) :
    /\ Ev(s)[i][1] = "call" /\ Ev(s)[i][2] = "send" /\ Ev(s)[i][3].t = "object"
    /\ \E j \in DOMAIN Ev(s) :
         j > i /\ Ev(s)[j] = <<"out", "send", Str(JSONStringify(Ev(s)[i][3]))>>

\* C3: when the handler of a miss calls res.json(b) with the store ready,
\* redis.set(key, JSON text of b, ttl) is issued, and the original res.json
\* is called with b itself, unserialized.
C3_JsonWriteStored ==
  \A s \in Slots : \A i \in DOMAIN Ev(s) :
    ( /\ Ev(s)[i][1] = "call" /\ Ev(s)[i][2] = "json"
      /\ i + 1 <= Len(Ev(s)) /\ Ev(s)[i + 1] = <<"isReady", TRUE>> ) =>
      LET b == Ev(s)[i][3] IN
      /\ i + 2 <= Len(Ev(s))
      /\ Ev(s)[i + 2] = <<"set", KeyFor(s).key, JSONStringify(b), ClaimTTL(route)>>
      /\ \A j \in DOMAIN Ev(s) :
           Ev(s)[j][1] = "out" => j > i + 2 /\ Ev(s)[j] = <<"out", "json", b>>
      /\ (~Pending(s) /\ ~Has(Ev(s), "throw")) => Has(Ev(s), "out")

C3_Witness ==
  \E s \in Slots : \E i \in DOMAIN Ev(s) :
    /\ Ev(s)[i][1] = "call" /\ Ev(s)[i][2] = "json" /\ Ev(s)[i][3].t = "object"
    /\ \E j \in DOMAIN Ev(s) : j > i /\ Ev(s)[j] = <<"out", "json", Ev(s)[i][3]>>
    /\ slots[s].cacheKey \in DOMAIN store
    /\ store[slots[s].cacheKey].text = JSONStringify(Ev(s)[i][3])

\* C4: a hit replays what the miss sent: the same bytes when the stored body
\* was sent with res.send, a structurally equal value when it was sent with
\* res.json.
C4_RoundTrip ==
  \A s \in Slots : \A i \in DOMAIN Ev(s) :
    Ev(s)[i][1] = "hit" =>
      LET via == Ev(s)[i][3]
          body == Ev(s)[i][4]
      IN \E j \in DOMAIN Ev(s) :
           /\ j > i
           /\ Ev(s)[j][1] = "out"
           /\ IF via = "send"
                THEN Wire(Ev(s)[j]) = ClaimText(body)
                ELSE JSONParse(Wire(Ev(s)[j])) = [ok |-> TRUE, val |-> body]

\* C5: no failure inside the middleware reaches the caller: nothing is thrown
\* uncaught, a failed lookup is followed by next(), a failed store write by
\* the original write.
C5_FailuresInvisible ==
  \A s \in Slots : \A i \in DOMAIN Ev(s) :
    Ev(s)[i][1] = "throw" =>
      /\ Ev(s)[i][2] = "get" => \E j \in DOMAIN Ev(s) : j > i /\ Ev(s)[j][1] = "next"
      /\ Ev(s)[i][2] = "set" => \E j \in DOMAIN Ev(s) : j > i /\ Ev(s)[j][1] = "out"
      /\ Ev(s)[i][2] \in {"get", "set"}

\* C6: the middleware of a route without cache configuration calls next() on
\* every request and does nothing else: no store read, no store write,
\* whatever the state of the store handle.
C6_NoCachePassThrough ==
  ~route.hasCache =>
    /\ \A s \in Slots : Active(s) => PurePassThrough(s)
    /\ queue = <<>>
    /\ DOMAIN store = {}

C6_Witness ==
  /\ ~route.hasCache
  /\ redis = "ready"
  /\ \E s \in Slots : Has(Ev(s), "out")

\* C7: a middleware built for a cache-enabled route while the store was
\* absent or not ready logged one error at construction and passes every
\* request through, also once the store is ready: no store read or write,
\* no log per request.
C7_FallbackPermanent ==
  (mw # NoMw /\ route.hasCache /\ ~mw.builtReady) =>
    /\ mw.ev = << <<"log", "error">> >>
    /\ \A s \in Slots : Active(s) => PurePassThrough(s)
    /\ queue = <<>>
    /\ DOMAIN store = {}

C7_Witness ==
  /\ mw # NoMw /\ route.hasCache /\ ~mw.builtReady
  /\ redis = "ready"
  /\ \E s \in Slots : Has(Ev(s), "out")

\* C8: a request that finds the store not ready at line 52 is passed through:
\* next(), no lookup, no wrappers, no store command later either; and every
\* store command is issued right after a readiness check that read true.
C8_NotReadyPassThrough ==
  \A s \in Slots :
    /\ (Active(s) /\ Ev(s)[1] = <<"isReady", FALSE>>) =>
         /\ Ev(s)[2] = <<"next">>
         /\ Count(Ev(s), "next") = 1
         /\ ~StoreOps(Ev(s))
         /\ ~Has(Ev(s), "wrap")
         /\ ~slots[s].wrapped
         /\ ~Pending(s)
    /\ \A i \in DOMAIN Ev(s) :
         Ev(s)[i][1] \in {"get", "set"} => i > 1 /\ Ev(s)[i - 1] = <<"isReady", TRUE>>

C8_Witness ==
  /\ redis = "ready"
  /\ \E s \in Slots :
       /\ Active(s) /\ Ev(s)[1] = <<"isReady", FALSE>>
       /\ Has(Ev(s), "out")

\* C9: a request whose key derivation returns false gets a warning logged
\* and next() called, with no store command; a request whose derivation
\* succeeds goes on to the lookup, also right after a request that failed.
C9_KeyFailureOneRequest ==
  \A s \in Slots :
    (Active(s) /\ Ev(s)[1] = <<"isReady", TRUE>>) =>
      /\ KeyFor(s).kind = "false" =>
           /\ Has(Ev(s), "log") /\ Ev(s)[Len(KeyFor(s).logs) + 2] = <<"log", "warn">>
           /\ Ev(s)[Len(KeyFor(s).logs) + 3] = <<"next">>
           /\ Count(Ev(s), "next") = 1
           /\ ~StoreOps(Ev(s))
           /\ ~slots[s].wrapped
           /\ ~Pending(s)
      /\ KeyFor(s).kind = "key" => Ev(s)[2] = <<"get", KeyFor(s).key>>

C9_Witness ==
  \E s \in Slots :
    /\ slots[s].afterKeyFail
    /\ KeyFor(s).kind = "key"
    /\ Has(Ev(s), "hit")

\* C10: every store write carries the route's expire when that is a positive
\* number and 60 when it is omitted or 0.
C10_TTL ==
  /\ \A s \in Slots : \A i \in DOMAIN Ev(s) :
       Ev(s)[i][1] = "set" => Ev(s)[i][4] = ClaimTTL(route)
  /\ \A i \in DOMAIN queue : queue[i].op = "set" => queue[i].ttl = ClaimTTL(route)
  /\ \A k \in DOMAIN store : store[k].ttl = ClaimTTL(route)

C10_Witness ==
  /\ route.cache.hasExpire /\ route.cache.expire = 0
  /\ \E k \in DOMAIN store : store[k].ttl = 60 /\ store[k].via = "json"
  /\ \E s \in Slots : \E i \in DOMAIN Ev(s) :
       Ev(s)[i][1] = "set" /\ Ev(s)[i][4] = 60

(***************************************************************************)
(* Key derivation (checked under KeySpec).                                 *)
(***************************************************************************)
\* The request in slot s went past the readiness check of line 52, so the
\* middleware derived its key.
Derived(s) == slots[s].pc # "idle" /\ slots[s].ev[1] = <<"isReady", TRUE>>

CacheType == IF route.hasCache THEN route.cache.type ELSE "none"

\* cache:<method>:<routePath>
ClaimRouteKey == "cache:" \o route.method \o ":" \o route.route

\* The request's cookie mapping, empty when the request has none.
ClaimCookies(req) == IF req.hasCookies THEN req.cookies ELSE NoEntries

\* First-defined-wins of the claims: the value of the first name that is
\* defined in map, the empty string included.
RECURSIVE ClaimFirst(_, _)
ClaimFirst(names, map) ==
  IF names = <<>> THEN [found |-> FALSE, val |-> ""]
  ELSE IF Head(names) \in DOMAIN map THEN [found |-> TRUE, val |-> map[Head(names)]]
  ELSE ClaimFirst(Tail(names), map)

\* The token of the claims: the cookie pass, then the header pass.
ClaimToken(req) ==
  LET c == ClaimFirst(commonAuthCookieNames, ClaimCookies(req)) IN
  IF c.found THEN c ELSE ClaimFirst(commonAuthHeaderNames, req.headers)

\* The derivation of slot s's request returned false: the middleware logged
\* its warning, called next() and issued no lookup.
NotCacheableSeen(s) ==
  /\ Has(Ev(s), "next")
  /\ \E i \in DOMAIN Ev(s) : Ev(s)[i] = <<"log", "warn">>
  /\ ~StoreOps(Ev(s))
  /\ ~Has(Ev(s), "throw")

\* C11: for type per-auth-token the token is the value of the first listed
\* cookie defined on the request (the empty string counts as defined), else
\* of the first listed header defined on it; the key is
\* cache:<method>:<routePath>:<token>, and the derivation returns false
\* exactly when neither pass finds a value.  (Stated of the requests that
\* carry a cookie mapping; one without makes req.cookies[name] throw.)
C11_AuthToken ==
  \A s \in DOMAIN slots :
    (CacheType = "per-auth-token" /\ Derived(s) /\ slots[s].req.hasCookies) =>
      LET tk == ClaimToken(slots[s].req) IN
      IF tk.found
        THEN Ev(s)[2] = <<"get", ClaimRouteKey \o ":" \o tk.val>>
        ELSE NotCacheableSeen(s)

\* C12: for type per-custom-cookie with customCookie set, a request whose
\* named cookie has a non-empty value v derives cache:<method>:<routePath>:<v>,
\* and one whose named cookie is absent or empty is not cacheable, with a
\* warning; with customCookie not set every request is not cacheable, with
\* an error logged, whatever cookies it carries.
C12_CustomCookie ==
  \A s \in DOMAIN slots :
    (CacheType = "per-custom-cookie" /\ Derived(s)) =>
      LET cookies == ClaimCookies(slots[s].req)
          name == route.cache.customCookie
          v == IF name \in DOMAIN cookies THEN cookies[name] ELSE ""
      IN
      IF ~route.cache.hasCustomCookie
        THEN /\ Ev(s)[2] = <<"log", "error">>
             /\ NotCacheableSeen(s)
      ELSE IF v # ""
        THEN Ev(s)[2] = <<"get", ClaimRouteKey \o ":" \o v>>
      ELSE /\ Ev(s)[2] = <<"log", "warn">>
           /\ ~Has(SubSeq(Ev(s), 2, Len(Ev(s))), "get")
           /\ \A i \in DOMAIN Ev(s) : Ev(s)[i][1] = "log" => Ev(s)[i][2] = "warn"
           /\ NotCacheableSeen(s)

C12_Witness ==
  \E s \in DOMAIN slots :
    /\ CacheType = "per-custom-cookie" /\ ~route.cache.hasCustomCookie
    /\ Derived(s)
    /\ "cartId" \in DOMAIN slots[s].req.cookies
    /\ slots[s].req.cookies["cartId"] = "xyz"
    /\ Ev(s)[2] = <<"log", "error">>
    /\ Has(Ev(s), "next")

\* C13: for type per-request-url every request derives
\* cache:<method>:<its path-plus-query>, whatever its cookies and headers;
\* a request and the next one derive the same key exactly when their URLs
\* are the same.
C13_UrlKeyOf ==
  \A s \in DOMAIN slots :
    (CacheType = "per-request-url" /\ Derived(s)) =>
      Ev(s)[2] = <<"get", "cache:" \o route.method \o ":" \o slots[s].req.url>>

C13_UrlPairs ==
  \A s \in DOMAIN slots :
    ( /\ CacheType = "per-request-url"
      /\ Derived(s)
      /\ slots'[s].pc # "idle" /\ slots'[s].ev[1] = <<"isReady", TRUE>> ) =>
      /\ slots[s].ev[2][1] = "get" /\ slots'[s].ev[2][1] = "get"
      /\ (slots[s].ev[2] = slots'[s].ev[2]) <=> (slots[s].req.url = slots'[s].req.url)

C14_AlwaysKeyOf ==
  \A s \in DOMAIN slots :
    (CacheType = "always" /\ Derived(s)) => Ev(s)[2] = <<"get", ClaimRouteKey>>

C14_AlwaysPairs ==
  \A s \in DOMAIN slots :
    ( /\ CacheType = "always"
      /\ Derived(s)
      /\ slots'[s].pc # "idle" /\ slots'[s].ev[1] = <<"isReady", TRUE>> ) =>
      /\ slots[s].ev[2][1] = "get"
      /\ slots[s].ev[2] = slots'[s].ev[2]

C14_Always == []C14_AlwaysKeyOf /\ [][C14_AlwaysPairs]_vars

C14_Witness ==
  \E s \in DOMAIN slots :
    /\ CacheType = "always"
    /\ Derived(s)
    /\ ~slots[s].req.hasCookies
    /\ slots[s].req.url = "/users?page=1"
    /\ Ev(s)[2] = <<"get", "cache:GET:/users">>
    /\ slots[s].pc = "handler"

(***************************************************************************)
(* The write wrappers when the store is no longer ready.                   *)
(***************************************************************************)
\* C15: a write wrapper that finds the store not ready skips the store write
\* and still delivers the handler's body through the original entry point.
C15_NotReadyDelivers ==
  \A s \in DOMAIN slots : \A i \in DOMAIN Ev(s) :
    ( /\ Ev(s)[i][1] = "call"
      /\ i + 1 <= Len(Ev(s)) /\ Ev(s)[i + 1] = <<"isReady", FALSE>> ) =>
      /\ ~Has(SubSeq(Ev(s), i, Len(Ev(s))), "set")
      /\ \E j \in DOMAIN Ev(s) :
           j > i /\ Ev(s)[j][1] = "out" /\ Ev(s)[j][2] = Ev(s)[i][2]

\* C16: next() is called at most once per request: once on a miss or a
\* pass-through, and never from inside a write wrapper.
C16_NextAtMostOnce ==
  \A s \in DOMAIN slots :
    /\ Count(Ev(s), "next") <= 1
    /\ \A i \in DOMAIN Ev(s) :
         Ev(s)[i][1] = "next" => ~Has(SubSeq(Ev(s), 1, i), "call")
    /\ slots[s].pc = "handler" => Count(Ev(s), "next") = 1

(***************************************************************************)
(* The miss path.                                                          *)
(***************************************************************************)
\* The position in ev of the first entry equal to e, 0 when there is none.
IndexOf(ev, e) ==
  IF \E i \in DOMAIN ev : ev[i] = e
    THEN CHOOSE i \in DOMAIN ev : ev[i] = e /\ \A j \in 1 .. i - 1 : ev[j] # e
    ELSE 0

\* C17: on a miss next() is called after both res.send and res.json have
\* been replaced and before the handler writes; every write of the handler
\* then runs a wrapper, so none reaches an original entry point except
\* through the wrapper's store write.
C17_WrapThenContinue ==
  \A s \in DOMAIN slots :
    (Has(Ev(s), "wrap") \/ slots[s].wrapped) =>
      LET ws == IndexOf(Ev(s), <<"wrap", "send">>)
          wj == IndexOf(Ev(s), <<"wrap", "json">>)
          nx == IndexOf(Ev(s), <<"next">>)
      IN
      /\ ws > 0 /\ wj > 0
      /\ nx > ws /\ nx > wj
      /\ \A i \in DOMAIN Ev(s) :
           /\ Ev(s)[i][1] \in {"call", "isReady", "set", "out"} /\ i > 1 => i > nx
           /\ Ev(s)[i][1] = "call" =>
                (i + 1 <= Len(Ev(s)) /\ Ev(s)[i + 1][1] = "isReady")
           /\ Ev(s)[i][1] = "out" =>
                \E j \in 1 .. i - 1 :
                  Ev(s)[j][1] = "set" /\ Ev(s)[j][2] = slots[s].cacheKey

C17_Witness ==
  \E s \in DOMAIN slots :
    /\ Has(Ev(s), "wrap")
    /\ \E i \in DOMAIN Ev(s) : Ev(s)[i][1] = "call" /\ Ev(s)[i][2] = "json"
    /\ \E i \in DOMAIN Ev(s) : Ev(s)[i][1] = "out" /\ Ev(s)[i][2] = "json"

(***************************************************************************)
(* Concurrent misses (checked under RaceSpec).                             *)
(***************************************************************************)
\* The text the wrapper of entry stores for a handler's body b.
ClaimStored(entry, b) == IF entry = "send" THEN ClaimText(b) ELSE JSONStringify(b)

\* The value under every key is the serialized body of a handler write, and
\* every write in flight is for the key of the request that made it.
C18_StoredIsAWrite ==
  /\ \A k \in DOMAIN store :
       /\ store[k].body \in Bodies /\ store[k].via \in Entries
       /\ store[k].text = ClaimStored(store[k].via, store[k].body)
  /\ \A i \in DOMAIN queue :
       queue[i].op = "set" =>
         /\ queue[i].key = KeyFor(queue[i].slot).key
         /\ queue[i].text = ClaimStored(queue[i].entry, queue[i].body)

\* A step in which the store answers a write leaves the key holding that
\* write's text.
C18_LastWins ==
  ( /\ queue # <<>> /\ Head(queue).op = "set"
    /\ queue' = Tail(queue)
    /\ slots'[Head(queue).slot].ev[Len(slots'[Head(queue).slot].ev)][1] = "out" ) =>
    /\ Head(queue).key \in DOMAIN store'
    /\ store'[Head(queue).key].text = Head(queue).text
    /\ \A k \in DOMAIN store \ {Head(queue).key} : k \in DOMAIN store' /\ store'[k] = store[k]

\* C18: two concurrent requests with the same key may both miss, both run the
\* handler and both write; the store then holds the text of the write
\* answered last, and the value under a key is always the serialized body
\* of one handler write made for that key.
C18_ConcurrentMisses == []C18_StoredIsAWrite /\ [][C18_LastWins]_vars

C18_Witness ==
  \E s1, s2 \in DOMAIN slots :
    /\ s1 # s2
    /\ Has(Ev(s1), "wrap") /\ Has(Ev(s2), "wrap")
    /\ Has(Ev(s1), "out") /\ Has(Ev(s2), "out")
    /\ slots[s1].cacheKey = slots[s2].cacheKey
    /\ \E i \in DOMAIN Ev(s1), j \in DOMAIN Ev(s2) :
         /\ Ev(s1)[i][1] = "set" /\ Ev(s2)[j][1] = "set"
         /\ Ev(s1)[i][3] # Ev(s2)[j][3]
         /\ slots[s1].cacheKey \in DOMAIN store
         /\ store[slots[s1].cacheKey].text = Ev(s2)[j][3]

(***************************************************************************)
(* The hit path and the outcomes of a middleware call.                     *)
(***************************************************************************)
\* C19: on a hit the entry point follows from the first character of the
\* stored text: for '{' or '[' the text is parsed and the value written with
\* res.json, otherwise the text is written unchanged with res.send; the
\* header X-Cache: HIT is set in both cases.
C19_EntryByFirstChar ==
  \A s \in DOMAIN slots : \A i \in DOMAIN Ev(s) :
    Ev(s)[i][1] = "hit" =>
      LET text == Ev(s)[i][2]
          last == Ev(s)[Len(Ev(s))]
      IN
      /\ Ev(s)[i + 1] = <<"setHeader", "X-Cache", "HIT">>
      /\ Count(Ev(s), "out") = 1
      /\ IF text[1] \in {"{", "["}
           THEN /\ JSONParse(text).ok
                /\ last = <<"out", "json", JSONParse(text).val>>
           ELSE last = <<"out", "send", Str(text)>>

\* The three outcomes of a middleware call.
PassThroughOutcome(s) ==
  Has(Ev(s), "next") /\ ~Has(Ev(s), "wrap") /\ ~Has(Ev(s), "setHeader")

HitOutcome(s) ==
  /\ \E i \in DOMAIN Ev(s) : Ev(s)[i] = <<"setHeader", "X-Cache", "HIT">>
  /\ Has(Ev(s), "out")
  /\ ~Has(Ev(s), "next") /\ ~Has(Ev(s), "wrap")

InterceptOutcome(s) ==
  /\ \E i \in DOMAIN Ev(s) : Ev(s)[i] = <<"wrap", "send">>
  /\ \E i \in DOMAIN Ev(s) : Ev(s)[i] = <<"wrap", "json">>
  /\ Has(Ev(s), "next")
  /\ ~Has(Ev(s), "setHeader")

\* C20: a middleware call whose lookup was answered has ended in exactly one
\* of pass-through, HIT and INTERCEPT_INSTALLED, and X-Cache: HIT is set only
\* in a HIT.
C20_OneOutcome ==
  \A s \in DOMAIN slots :
    (slots[s].pc \in {"handler", "done"} /\ ~(\E i \in DOMAIN Ev(s) : Ev(s)[i] = <<"throw", "get">>)) =>
      /\ Cardinality({o \in {"pass", "hit", "intercept"} :
                        \/ o = "pass" /\ PassThroughOutcome(s)
                        \/ o = "hit" /\ HitOutcome(s)
                        \/ o = "intercept" /\ InterceptOutcome(s)}) = 1
      /\ Has(Ev(s), "setHeader") => HitOutcome(s)

(***************************************************************************)
(* Keys of different routes (checked under AppSpec).                       *)
(***************************************************************************)
\* C21: two routes that differ in path or in cache type never derive the
\* same key: a hit replays only what a request to the same route stored, and
\* a key in the store is not the key of a request to another route.
C21_NoCrossRouteHit ==
  /\ \A s \in DOMAIN slots : \A i \in DOMAIN Ev(s) :
       Ev(s)[i][1] = "hit" => Ev(s)[i][5] = Ev(s)[i][6]
  /\ \A k \in DOMAIN store : \A q \in AppReqs(route) :
       generateCacheKey(route, q).key = k => store[k].by = route

(***************************************************************************)
(* Hits and the stored entry (checked under TtlSpec).                      *)
(***************************************************************************)
\* A request served from the cache sent no write and installed no wrapper,
\* and every entry has between 1 and its TTL seconds to live.
C22_HitWritesNothing ==
  /\ \A s \in DOMAIN slots :
       Has(Ev(s), "hit") =>
         /\ ~Has(Ev(s), "set") /\ ~Has(Ev(s), "wrap")
         /\ ~slots[s].wrapped
         /\ ~Pending(s)
  /\ \A k \in DOMAIN store :
       /\ store[k].ttl = ClaimTTL(route)
       /\ store[k].left > 0 /\ store[k].left <= store[k].ttl

\* A step in which the lookup is answered leaves the store as it is, and an
\* entry changes only by losing seconds or by the answer to a write for its
\* key.
C22_HitFrame ==
  /\ (queue # <<>> /\ Head(queue).op = "get" /\ queue' = Tail(queue)) => store' = store
  /\ \A k \in DOMAIN store \cap DOMAIN store' :
       store'[k] # store[k] =>
         \/ /\ store'[k].left < store[k].left
            /\ store'[k] = [store[k] EXCEPT !.left = store'[k].left]
         \/ /\ queue # <<>> /\ Head(queue).op = "set" /\ Head(queue).key = k
            /\ store'[k] = Stored(Head(queue))

\* C22: a hit leaves the store unchanged: it issues no write, the stored
\* value and its expiry stay those of the write that stored it, and the
\* entry is served for at most its TTL after that write.
C22_HitLeavesStore == []C22_HitWritesNothing /\ [][C22_HitFrame]_vars

C22_Witness ==
  \E s \in DOMAIN slots : \E i \in DOMAIN Ev(s) :
    /\ Ev(s)[i][1] = "hit"
    /\ Ev(s)[i][7] < ClaimTTL(route)
    /\ Has(Ev(s), "out")
    /\ slots[s].cacheKey \in DOMAIN store
    /\ store[slots[s].cacheKey].left = Ev(s)[i][7]
    /\ store[slots[s].cacheKey].text = Ev(s)[i][2]

====
